---- MODULE Spec2Model ----
(***************************************************************************)
(* Model of src/src/fetch_stock_data.py: the stock data fetcher.           *)
(*                                                                         *)
(* One run of main() is the sequence get_stock_info -> fetch_stock_data -> *)
(* describe/derived statistics -> save_data.  The external collaborators   *)
(* (yfinance, the file system, the wall clock) are nondeterministic: each  *)
(* external call either succeeds or raises.  A table is modelled by its    *)
(* Close column, a sequence of non-negative prices.  Floating-point values *)
(* are exact rationals num/den (rad = TRUE: the square root of num/den)    *)
(* extended with the IEEE values inf and nan that numpy.float64 division   *)
(* produces for a zero divisor.                                            *)
(***************************************************************************)
EXTENDS Integers, Sequences, FiniteSets, TLC

VARIABLES
    pc,            \* position of the run inside main()
    runs,          \* number of runs of main() started so far
    ticker,        \* main's local `ticker` (line 103)
    today,         \* the local calendar day datetime.now() reports
    data,          \* main's local `data` (line 109)
    stats,         \* main's local `stats` (line 118)
    story,         \* price_range, percent_increase, iqr_range, volatility_percent
    out,           \* lines printed to stdout by the current run
    calls,         \* the functions the current run has called, in order
    profileResult, \* what stock.info did in the current run
    fetchResult,   \* what stock.history did in the current run
    folderExists,  \* whether the folder "data" exists
    files,         \* the files of the folder: path -> [exists, lines]
    lastSave       \* (ticker, day) -> the latest save_data call that got past line 57

vars == <<pc, runs, ticker, today, data, stats, story, out, calls,
          profileResult, fetchResult, folderExists, files, lastSave>>

----------------------------------------------------------------------------
(* Bounds of the model *)

MaxPrice == 2
MaxRows == 2
MaxDay == 2
MaxRuns == 2

(* Inputs *)

Tickers == {"JPM", "AAPL"}
Folder == "data"
Days == 1..MaxDay
Prices == 0..MaxPrice
Tables == UNION {[1..n -> Prices] : n \in 0..MaxRows}
\* the tables fetched when the script is run again and again
ShortTables == {t \in Tables : Len(t) <= 1}

ProfileOutcomes == {"ok", "bad_market_cap", "raise"}
SaveOutcomes == {"ok", "makedirs_raise", "open_raise", "write_raise", "getsize_raise"}

----------------------------------------------------------------------------
(* Values *)

NoneData == [isNone |-> TRUE, close |-> <<>>]
DataFrame(close) == [isNone |-> FALSE, close |-> close]

Fin(n, d) == [kind |-> "finite", num |-> n, den |-> d, rad |-> FALSE]
Root(n, d) == [kind |-> "finite", num |-> n, den |-> d, rad |-> TRUE]
Inf == [kind |-> "inf", num |-> 0, den |-> 1, rad |-> FALSE]
NaN == [kind |-> "nan", num |-> 0, den |-> 1, rad |-> FALSE]

IsZero(x) == x.kind = "finite" /\ x.num = 0

\* numpy.float64 subtraction of two rationals (lines 145, 147)
FloatSub(a, b) ==
    IF a.kind = "nan" \/ b.kind = "nan" THEN NaN
    ELSE IF a.kind = "inf" /\ b.kind = "inf" THEN NaN
    ELSE IF a.kind = "inf" \/ b.kind = "inf" THEN Inf
    ELSE Fin(a.num * b.den - b.num * a.den, a.den * b.den)

\* numpy.float64 division (lines 146, 148): x/0 is inf, 0/0 is nan, with a
\* RuntimeWarning and no exception.  The divisor is never a square root.
FloatDiv(a, b) ==
    IF a.kind = "nan" \/ b.kind = "nan" THEN NaN
    ELSE IF a.kind = "inf" THEN (IF b.kind = "inf" THEN NaN ELSE Inf)
    ELSE IF b.kind = "inf" THEN Fin(0, 1)
    ELSE IF b.num = 0 THEN (IF a.num = 0 THEN NaN ELSE Inf)
    ELSE IF a.rad THEN Root(a.num * b.den * b.den, a.den * b.num * b.num)
    ELSE Fin(a.num * b.den, a.den * b.num)

\* x * 100 (lines 146, 148)
FloatTimes100(a) ==
    IF a.kind # "finite" THEN a
    ELSE IF a.rad THEN Root(a.num * 10000, a.den)
    ELSE Fin(a.num * 100, a.den)

----------------------------------------------------------------------------
(* Series.describe() over the Close column (line 118) *)

RECURSIVE SeqSum(_)
SeqSum(s) == IF s = <<>> THEN 0 ELSE Head(s) + SeqSum(Tail(s))

RECURSIVE SeqSumSq(_)
SeqSumSq(s) == IF s = <<>> THEN 0 ELSE Head(s) * Head(s) + SeqSumSq(Tail(s))

RECURSIVE SeqMin(_)
SeqMin(s) ==
    IF Len(s) = 1 THEN Head(s)
    ELSE LET m == SeqMin(Tail(s)) IN IF Head(s) < m THEN Head(s) ELSE m

RECURSIVE SeqMax(_)
SeqMax(s) ==
    IF Len(s) = 1 THEN Head(s)
    ELSE LET m == SeqMax(Tail(s)) IN IF Head(s) > m THEN Head(s) ELSE m

\* the q/4 quantile with linear interpolation, as a rational over 4
Quantile(s, q) ==
    LET sorted == SortSeq(s, LAMBDA a, b : a < b)
        pos4 == (Len(s) - 1) * q
        lo == (pos4 \div 4) + 1
        frac4 == pos4 % 4
    IN IF frac4 = 0 THEN Fin(4 * sorted[lo], 4)
       ELSE Fin(4 * sorted[lo] + frac4 * (sorted[lo + 1] - sorted[lo]), 4)

\* the sample standard deviation (ddof = 1): nan for a single row
SeqStd(s) ==
    LET n == Len(s) IN
    IF n < 2 THEN NaN
    ELSE Root(n * SeqSumSq(s) - SeqSum(s) * SeqSum(s), n * (n - 1))

NoStats == [computed |-> FALSE, count |-> 0, mean |-> NaN, std |-> NaN,
            min |-> NaN, p25 |-> NaN, p50 |-> NaN, p75 |-> NaN, max |-> NaN]

\* an empty Series describes as count 0 and nan everywhere
Describe(close) ==
    IF close = <<>> THEN [NoStats EXCEPT !.computed = TRUE] ELSE
    [computed |-> TRUE,
     count |-> Len(close),
     mean |-> Fin(SeqSum(close), Len(close)),
     std |-> SeqStd(close),
     min |-> Fin(SeqMin(close), 1),
     p25 |-> Quantile(close, 1),
     p50 |-> Quantile(close, 2),
     p75 |-> Quantile(close, 3),
     max |-> Fin(SeqMax(close), 1)]

NoStory == [price_range |-> NaN, percent_increase |-> NaN,
            iqr_range |-> NaN, volatility_percent |-> NaN]

DeriveSwapped(st) ==
    LET price_range == FloatSub(st.min, st.max) IN
    [price_range |-> price_range,
     percent_increase |-> FloatTimes100(FloatDiv(price_range, st.min)),
     iqr_range |-> FloatSub(st.p75, st.p25),
     volatility_percent |-> FloatTimes100(FloatDiv(st.std, st.mean))]

\* lines 145-148
Derive(st) ==
    LET price_range == FloatSub(st.max, st.min) IN
    [price_range |-> price_range,
     percent_increase |-> FloatTimes100(FloatDiv(price_range, st.min)),
     iqr_range |-> FloatSub(st.p75, st.p25),
     volatility_percent |-> FloatTimes100(FloatDiv(st.std, st.mean))]

----------------------------------------------------------------------------
(* save_data's file name and file contents *)

\* datetime.now().strftime("%Y%m%d") for day d of January 2024 (line 63)
Strftime(d) == "202401" \o (IF d < 10 THEN "0" ELSE "") \o ToString(d)

FilenameNoTicker(folder, t, timestamp) == folder \o "/" \o timestamp \o ".csv"

\* line 64
Filename(folder, t, timestamp) == folder \o "/" \o t \o "_" \o timestamp \o ".csv"

Paths == {Filename(Folder, t, Strftime(d)) : t \in Tickers, d \in Days}

\* DataFrame.to_csv: a header line, then one line per row (line 67)
ToCsv(close) == <<"Date,Open,High,Low,Close,Volume">> \o
                [i \in 1..Len(close) |-> ToString(close[i])]

NoFile == [exists |-> FALSE, lines |-> <<>>]

AppendFile(fs, path, lines) ==
    [fs EXCEPT ![path] = [exists |-> TRUE, lines |-> fs[path].lines \o lines]]

\* open(path, "w") and write: the file is created or truncated (line 67)
WriteFile(fs, path, lines) ==
    [fs EXCEPT ![path] = [exists |-> TRUE, lines |-> lines]]

NoSave == [called |-> FALSE, close |-> <<>>, result |-> "none", repeat |-> FALSE]

----------------------------------------------------------------------------
Init ==
    /\ pc = "idle"
    /\ runs = 0
    /\ ticker = "JPM"
    /\ today = 1
    /\ data = NoneData
    /\ stats = NoStats
    /\ story = NoStory
    /\ out = <<>>
    /\ calls = <<>>
    /\ profileResult = "pending"
    /\ fetchResult = "pending"
    /\ folderExists \in BOOLEAN
    /\ files = [p \in Paths |-> NoFile]
    /\ lastSave = [k \in Tickers \X Days |-> NoSave]

\* main, lines 98-103: a new run of the script prints the banner
StartRun(t) ==
    /\ pc \in {"idle", "done", "crashed"}
    /\ runs < MaxRuns
    /\ runs' = runs + 1
    /\ ticker' = t
    /\ data' = NoneData
    /\ stats' = NoStats
    /\ story' = NoStory
    /\ out' = <<"banner">>
    /\ calls' = <<>>
    /\ profileResult' = "pending"
    /\ fetchResult' = "pending"
    /\ pc' = "info"
    /\ UNCHANGED <<today, folderExists, files, lastSave>>

GetStockInfoNoCatch(o) ==
    /\ pc = "info"
    /\ calls' = Append(calls, "get_stock_info")
    /\ profileResult' = o
    /\ IF o = "ok"
       THEN /\ out' = out \o <<"info_header", "company", "sector", "industry",
                               "market_cap", "currency">>
            /\ pc' = "fetch"
       ELSE /\ out' = out
            /\ pc' = "crashed"
    /\ UNCHANGED <<runs, ticker, today, data, stats, story, fetchResult,
                   folderExists, files, lastSave>>

\* get_stock_info, lines 72-91, called at line 106
GetStockInfo(o) ==
    /\ pc = "info"
    /\ calls' = Append(calls, "get_stock_info")
    /\ profileResult' = o
    /\ out' = CASE o = "ok" ->
                     out \o <<"info_header", "company", "sector", "industry",
                              "market_cap", "currency">>
                [] o = "bad_market_cap" ->
                     \* format(None, ",") raises TypeError at line 87
                     out \o <<"info_header", "company", "sector", "industry",
                              "info_warning">>
                [] o = "raise" -> Append(out, "info_warning")
    /\ pc' = "fetch"
    /\ UNCHANGED <<runs, ticker, today, data, stats, story, fetchResult,
                   folderExists, files, lastSave>>

FetchStockDataNoCatch(raises, table) ==
    /\ pc = "fetch"
    /\ calls' = Append(calls, "fetch_stock_data")
    /\ IF raises
       THEN /\ fetchResult' = "raise"
            /\ out' = Append(out, "fetching")
            /\ data' = NoneData
            /\ pc' = "crashed"
       ELSE IF Len(table) = 0
       THEN /\ fetchResult' = "empty"
            /\ out' = out \o <<"fetching", "no_data_found">>
            /\ data' = NoneData
            /\ pc' = "main111"
       ELSE /\ fetchResult' = "rows"
            /\ out' = out \o <<"fetching", "fetched_rows", "date_range">>
            /\ data' = DataFrame(table)
            /\ pc' = "main111"
    /\ UNCHANGED <<runs, ticker, today, stats, story, profileResult,
                   folderExists, files, lastSave>>

FetchStockDataKeepEmpty(raises, table) ==
    /\ pc = "fetch"
    /\ calls' = Append(calls, "fetch_stock_data")
    /\ IF raises
       THEN /\ fetchResult' = "raise"
            /\ out' = out \o <<"fetching", "fetch_error">>
            /\ data' = NoneData
       ELSE IF Len(table) = 0
       THEN /\ fetchResult' = "empty"
            /\ out' = out \o <<"fetching", "no_data_found">>
            /\ data' = DataFrame(table)
       ELSE /\ fetchResult' = "rows"
            /\ out' = out \o <<"fetching", "fetched_rows", "date_range">>
            /\ data' = DataFrame(table)
    /\ pc' = "main111"
    /\ UNCHANGED <<runs, ticker, today, stats, story, profileResult,
                   folderExists, files, lastSave>>

\* fetch_stock_data, lines 11-43, called at line 109
FetchStockData(raises, table) ==
    /\ pc = "fetch"
    /\ calls' = Append(calls, "fetch_stock_data")
    /\ IF raises
       THEN /\ fetchResult' = "raise"
            /\ out' = out \o <<"fetching", "fetch_error">>
            /\ data' = NoneData
       ELSE IF Len(table) = 0
       THEN /\ fetchResult' = "empty"
            /\ out' = out \o <<"fetching", "no_data_found">>
            /\ data' = NoneData
       ELSE /\ fetchResult' = "rows"
            /\ out' = out \o <<"fetching", "fetched_rows", "date_range">>
            /\ data' = DataFrame(table)
    /\ pc' = "main111"
    /\ UNCHANGED <<runs, ticker, today, stats, story, profileResult,
                   folderExists, files, lastSave>>

\* main, lines 111-157: the branch taken when data is not None
Summarize ==
    /\ pc = "main111"
    /\ ~data.isNone
    /\ calls' = Append(calls, "describe")
    /\ stats' = Describe(data.close)
    /\ story' = Derive(stats')
    /\ out' = out \o <<"head", "statistics", "story">>
    /\ pc' = "save"
    /\ UNCHANGED <<runs, ticker, today, data, profileResult, fetchResult,
                   folderExists, files, lastSave>>

ReportFailureRetry ==
    /\ pc = "main111"
    /\ data.isNone
    /\ out' = Append(out, "failure_marker")
    /\ pc' = IF Len(calls) < 3 THEN "fetch" ELSE "done"
    /\ UNCHANGED <<runs, ticker, today, data, stats, story, calls,
                   profileResult, fetchResult, folderExists, files, lastSave>>

\* main, lines 163-164: the branch taken when data is None
ReportFailure ==
    /\ pc = "main111"
    /\ data.isNone
    /\ out' = Append(out, "failure_marker")
    /\ pc' = "done"
    /\ UNCHANGED <<runs, ticker, today, data, stats, story, calls,
                   profileResult, fetchResult, folderExists, files, lastSave>>

\* save_data, lines 46-69, called at line 160.  o is what the file system
\* does; cut is the number of lines written before a failing write.
\* os.makedirs(exist_ok=True) cannot fail on a folder that exists.
SaveData(o, cut) ==
    /\ pc = "save"
    /\ o = "makedirs_raise" => ~folderExists
    /\ cut \in (IF o = "write_raise" THEN 0..Len(data.close) ELSE {0})
    /\ calls' = Append(calls, "save_data")
    /\ IF data.isNone \/ Len(data.close) = 0
       THEN /\ out' = Append(out, "no_data_to_save")
            /\ pc' = "main162"
            /\ UNCHANGED <<folderExists, files, lastSave>>
       ELSE LET path == Filename(Folder, ticker, Strftime(today))
                lines == ToCsv(data.close)
            IN
            /\ lastSave' = [lastSave EXCEPT ![<<ticker, today>>] =
                              [called |-> TRUE, close |-> data.close, result |-> o,
                               repeat |-> /\ @.result = "ok"
                                          /\ @.close = data.close]]
            /\ folderExists' = (folderExists \/ o # "makedirs_raise")
            /\ files' = CASE o \in {"ok", "getsize_raise"} ->
                               WriteFile(files, path, lines)
                          [] o = "write_raise" ->
                               WriteFile(files, path, SubSeq(lines, 1, cut))
                          [] OTHER -> files
            /\ out' = CASE o = "ok" -> out \o <<"saved_to", "file_size">>
                        [] o = "getsize_raise" -> Append(out, "saved_to")
                        [] OTHER -> out
            /\ pc' = IF o = "ok" THEN "main162" ELSE "crashed"
    /\ UNCHANGED <<runs, ticker, today, data, stats, story,
                   profileResult, fetchResult>>

\* main, line 162
ReportComplete ==
    /\ pc = "main162"
    /\ out' = Append(out, "complete_marker")
    /\ pc' = "done"
    /\ UNCHANGED <<runs, ticker, today, data, stats, story, calls,
                   profileResult, fetchResult, folderExists, files, lastSave>>

\* the wall clock passes midnight
Midnight ==
    /\ today < MaxDay
    /\ today' = today + 1
    /\ UNCHANGED <<pc, runs, ticker, data, stats, story, out, calls,
                   profileResult, fetchResult, folderExists, files, lastSave>>

\* the first run of the script
FirstRun(t) == pc = "idle" /\ StartRun(t)

\* one run of the script
Next ==
    \/ \E t \in Tickers : FirstRun(t)
    \/ \E o \in ProfileOutcomes : GetStockInfo(o)
    \/ \E raises \in BOOLEAN, table \in Tables : FetchStockData(raises, table)
    \/ Summarize
    \/ ReportFailure
    \/ \E o \in SaveOutcomes, cut \in 0..MaxRows : SaveData(o, cut)
    \/ ReportComplete
    \/ Midnight

Spec == Init /\ [][Next]_vars

\* the script run up to MaxRuns times, one run after the other
NextRuns ==
    \/ \E t \in Tickers : StartRun(t)
    \/ \E o \in ProfileOutcomes : GetStockInfo(o)
    \/ \E raises \in BOOLEAN, table \in ShortTables : FetchStockData(raises, table)
    \/ Summarize
    \/ ReportFailure
    \/ \E o \in SaveOutcomes, cut \in 0..MaxRows : SaveData(o, cut)
    \/ ReportComplete
    \/ Midnight

SpecRuns == Init /\ [][NextRuns]_vars

----------------------------------------------------------------------------
(* Properties *)

LastOf(s) == s[Len(s)]
Called(f) == \E i \in 1..Len(calls) : calls[i] = f
Printed(line) == \E i \in 1..Len(out) : out[i] = line
Markers == {"complete_marker", "failure_marker"}
MarkerCount == Cardinality({i \in 1..Len(out) : out[i] \in Markers})
Ended == pc \in {"done", "crashed"}
Keys == Tickers \X Days
KeyPath == [k \in Keys |-> Filename(Folder, k[1], Strftime(k[2]))]
Key(k) == KeyPath[k]
KeysDistinct == \A j, k \in Keys : KeyPath[j] = KeyPath[k] => j = k
FileCount(fs) == Cardinality({p \in Paths : fs[p].exists})
MaxOf(close) == CHOOSE x \in {close[i] : i \in 1..Len(close)} :
                    \A i \in 1..Len(close) : close[i] <= x
MinOf(close) == CHOOSE x \in {close[i] : i \in 1..Len(close)} :
                    \A i \in 1..Len(close) : x <= close[i]

\* the path a run takes when fetch_stock_data returned None
NoDataPath ==
    /\ data = NoneData
    /\ pc \in {"main111", "done"}
    /\ calls = <<"get_stock_info", "fetch_stock_data">>
    /\ ~stats.computed
    /\ pc = "main111" => ENABLED ReportFailure
    /\ pc = "done" => LastOf(out) = "failure_marker" /\ MarkerCount = 1

\* C1: in a run whose history fetch returned zero rows, the statistics are
\* never computed and save_data is never called, no file or folder is
\* created, and the run ends with the failure marker printed.
C1_EmptyFetchStops ==
    /\ [](fetchResult = "empty" => NoDataPath /\ Printed("no_data_found"))
    /\ [][fetchResult' = "empty" =>
            files' = files /\ folderExists' = folderExists]_vars

C1_Witness == fetchResult = "empty" /\ pc = "done"

\* C2: when stock.history raises, fetch_stock_data catches the exception,
\* prints the error line and returns None, and main takes the path of an
\* empty result: no statistics, no save_data, the failure marker.
C2_FetchErrorIsEmpty ==
    /\ [](fetchResult = "raise" => NoDataPath /\ Printed("fetch_error"))
    /\ [][fetchResult' = "raise" =>
            files' = files /\ folderExists' = folderExists]_vars

C2_Witness == fetchResult = "raise" /\ pc = "done"

\* C3: get_stock_info returns normally whether stock.info succeeds or
\* raises (a warning line is printed when it raises), and the history
\* fetch follows with every outcome possible whatever the profile did.
C3_ProfileNeverAborts ==
    /\ [][pc = "info" /\ pc' # "info" =>
            /\ pc' = "fetch"
            /\ profileResult' # "ok" => LastOf(out') = "info_warning"]_vars
    /\ [](pc = "fetch" =>
            \A raises \in BOOLEAN, table \in Tables :
                ENABLED FetchStockData(raises, table))

C3_Witness == pc = "main111" /\ profileResult = "raise" /\ fetchResult = "rows"

\* C4: no failure of an external call (stock.info, stock.history,
\* os.makedirs, to_csv, os.path.getsize) propagates out of main.
C4_NoExceptionEscapes == pc # "crashed"

\* C5: a run that has ended has printed exactly one marker, as its last
\* line: the confirmation marker iff the fetch returned rows (after the
\* statistics and save_data), the failure marker iff the fetch result was
\* empty or an error, with an explanatory line before it.
C5_OneFinalMarker ==
    Ended =>
        /\ pc = "done"
        /\ MarkerCount = 1
        /\ LastOf(out) \in Markers
        /\ LastOf(out) = "complete_marker" <=> fetchResult = "rows"
        /\ LastOf(out) = "failure_marker" <=> fetchResult \in {"empty", "raise"}
        /\ LastOf(out) = "complete_marker" => Called("describe") /\ Called("save_data")
        /\ LastOf(out) = "failure_marker" =>
               Printed("no_data_found") \/ Printed("fetch_error")

\* C6: when the minimum (or the mean) closing price is 0, the division is
\* guarded: percent_increase (volatility_percent) is skipped or undefined,
\* not the inf or nan quotient of a division by zero, and nothing is raised.
C6_ZeroDenominatorGuarded ==
    stats.computed =>
        /\ pc \in {"save", "main162", "done"} \/ Called("save_data")
        /\ IsZero(stats.min) =>
               story.percent_increase.kind \in {"skipped", "undefined"}
        /\ IsZero(stats.mean) =>
               story.volatility_percent.kind \in {"skipped", "undefined"}

\* C7: a save_data call that completes after a completed save_data call of
\* the same table for the same ticker on the same day writes the same path
\* and leaves the files as they were: one file, the same contents.
C7_SameDaySaveIdempotent ==
    [][/\ pc = "save" /\ pc' = "main162"
       /\ lastSave[<<ticker, today>>].result = "ok"
       /\ lastSave[<<ticker, today>>].close = data.close
       => /\ files' = files
          /\ FileCount(files') = FileCount(files)
          /\ files'[Filename(Folder, ticker, Strftime(today))] =
                 [exists |-> TRUE, lines |-> ToCsv(data.close)]]_vars

C7_Witness ==
    \E k \in Keys : lastSave[k].repeat /\ lastSave[k].result = "ok" /\ pc = "done"

\* C8: the calls of a run are a prefix of get_stock_info, fetch_stock_data,
\* describe, save_data, each made at most once; the fetch starts after the
\* profile report returned, the statistics after a non-empty table was
\* fetched, save_data after the statistics and the story were printed.
C8_LinearOrder ==
    /\ \E n \in 0..4 :
           calls = SubSeq(<<"get_stock_info", "fetch_stock_data",
                            "describe", "save_data">>, 1, n)
    /\ Called("fetch_stock_data") => profileResult # "pending"
    /\ Called("describe") => fetchResult = "rows" /\ Len(data.close) > 0
    /\ Called("save_data") => stats.computed /\ Printed("story")

C8_Witness == Len(calls) = 4 /\ pc = "done"

\* C9 as stated: after the runs, the folder holds a file for exactly the
\* (ticker, day) pairs of the runs that fetched rows, each with the table
\* of the latest such run.
C9_OneFilePerFetchedPair ==
    Ended =>
        \A k \in Keys :
            /\ files[Key(k)].exists <=> lastSave[k].called
            /\ lastSave[k].called => files[Key(k)].lines = ToCsv(lastSave[k].close)

\* C9 as amended: the folder holds at most one file per (ticker, day) pair
\* and only for pairs of runs that fetched rows; when the latest such run
\* of a pair got through to_csv, the pair's file holds that run's table; a
\* run that fetched nothing leaves the files as they are, and a step
\* changes no file but the one of the running ticker and the current day.
C9_FilesFollowCompletedSaves ==
    /\ [](/\ KeysDistinct
          /\ \A k \in Keys :
                 /\ files[Key(k)].exists => lastSave[k].called
                 /\ lastSave[k].result \in {"ok", "getsize_raise"} =>
                        files[Key(k)] = [exists |-> TRUE,
                                         lines |-> ToCsv(lastSave[k].close)])
    /\ [][/\ fetchResult' \in {"empty", "raise"} => files' = files
          /\ files' # files =>
                 \A k \in Keys : k # <<ticker, today>> =>
                     files'[Key(k)] = files[Key(k)]]_vars

C9_Witness ==
    /\ pc = "done"
    /\ fetchResult = "empty"
    /\ \E k \in Keys : lastSave[k].result = "ok" /\ files[Key(k)].exists

\* C10: for a non-empty table, price_range is the maximum minus the minimum
\* of the closing prices and is not negative.
C10_PriceRange ==
    stats.computed =>
        /\ story.price_range = Fin(MaxOf(data.close) - MinOf(data.close), 1)
        /\ story.price_range.num >= 0

C10_Witness == stats.computed /\ story.price_range.num > 0

====
